---------------------------- MODULE Spec2Model ----------------------------
(***************************************************************************)
(* A model of gonut's "push" command layer,                                *)
(* src/internal/gonut/cmd/push.go: the sample app table, the cobra         *)
(* dispatch of "push <language>|all", the setting mappers, the duration    *)
(* formatter, the report printer and the push orchestration.               *)
(*                                                                         *)
(* Two specifications share the variables:                                 *)
(*   Spec      one run of the command line program (flags parsed once,     *)
(*             one sub-command dispatched, run to its end);                *)
(*   SpecPure  one call of one of the pure functions on an input drawn     *)
(*             from a bounded set.                                         *)
(*                                                                         *)
(* Go strings that the code only compares for equality are TLA+ strings.   *)
(* The --output flag, which the code lower-cases, is a sequence of         *)
(* one-character strings so that strings.ToLower is computed.              *)
(***************************************************************************)
EXTENDS Integers, Sequences, FiniteSets, TLC

VARIABLES
    deleteSetting,   \* --delete flag (push.go:53)
    summarySetting,  \* --summary flag (push.go:54)
    outputSetting,   \* --output flag (push.go:55), a sequence of characters
    word,            \* the sub-command word given on the command line
    cmdUse,          \* cmd.Use of the cobra command that was dispatched
    pc,              \* position of the single thread of control
    i,               \* index of the "push all" loop over sampleApps
    app,             \* index of the sample app runSampleAppPush works on
    cleanupSetting,  \* local of runSampleAppPush
    outputType,      \* local of runSampleAppPush
    appName,         \* local of runSampleAppPush
    directory,       \* local of runSampleAppPush: what the asset function returned
    report,          \* local of runSampleAppPush: what cf.PushApp returned
    err,             \* error returned by runSampleAppPush, "nil" if none
    calls,           \* history: every call made, in order
    printed,         \* history: everything written to standard output
    exitMsg,         \* argument of ExitGonut, "none" while running
    fn,              \* SpecPure: the pure function under call
    arg,             \* SpecPure: its input
    res              \* SpecPure: its result, Pending before the call

vars == << deleteSetting, summarySetting, outputSetting, word, cmdUse, pc, i,
           app, cleanupSetting, outputType, appName, directory, report, err,
           calls, printed, exitMsg, fn, arg, res >>

procVars == << deleteSetting, summarySetting, outputSetting, word, cmdUse, pc,
               i, app, cleanupSetting, outputType, appName, directory,
               report, err, calls, printed, exitMsg >>

pureVars == << fn, arg, res >>

-----------------------------------------------------------------------------
(* Bounds of the model.                                                    *)

\* Durations of 0..MaxSeconds whole seconds are enumerated exhaustively.
MaxSeconds == 130

\* --output strings up to this length over SmallAlphabet are enumerated.
MaxStrLen == 4

-----------------------------------------------------------------------------
(* Values of the external package cf and of the Go runtime.                *)

nil == "nil"

\* cf.AppCleanupSetting and cf.OutputType are integer enumerations of the
\* cf package; the mappers return -1 where no enumerator applies.
Never == 0

Always == 1

OnSuccess == 2

JSON == 0

YAML == 1

\* time.Second, in nanoseconds.
Second == 1000000000

\* A time.Duration of sec * Second + nsec nanoseconds is the record
\* [sec, nsec] with sec = d / Second and nsec = d % Second as Go computes
\* them (truncated division: nsec has the sign of d).
Dur(sec, nsec) == [sec |-> sec, nsec |-> nsec]

RECURSIVE Pow2(_)
Pow2(n) == IF n = 0 THEN 1 ELSE 2 * Pow2(n - 1)

\* floor(log2 n) for n >= 1: the binary exponent of float64(n).
RECURSIVE Exponent(_)
Exponent(n) == IF n < 2 THEN 0 ELSE 1 + Exponent(n \div 2)

\* int(d.Seconds()) for d >= Second.  Duration.Seconds is
\*   float64(sec) + float64(nsec)/1e9
\* in IEEE-754 binary64, round to nearest.  With e = Exponent(sec) the sum
\* lies in [2^e, 2^(e+1)) where doubles are 2^(e-52) apart, so the sum
\* rounds up to sec + 1 exactly when the distance (Second - nsec)/1e9 to
\* sec + 1 is below half that spacing:  (Second - nsec) * 2^(53-e) < 1e9.
\* 1e9 is no multiple of 2^(53-e), so this is
\*   Second - nsec <= 1e9 \div 2^(53-e),
\* and it is false whenever 2^(53-e) > 1e9, that is 53 - e >= 30.
\* Otherwise the fraction is truncated by int().
SecondsToInt(d) ==
    LET e == Exponent(d.sec)
        k == Second - d.nsec
    IN  IF 53 - e < 30 /\ k <= Second \div Pow2(53 - e)
        THEN d.sec + 1
        ELSE d.sec

\* duration < time.Second
LessThanSecond(d) == d.sec < 1

-----------------------------------------------------------------------------
(* strings.Join and strings.ToLower                                        *)

RECURSIVE Join(_, _)
Join(parts, sep) ==
    IF parts = << >> THEN ""
    ELSE IF Len(parts) = 1 THEN parts[1]
    ELSE parts[1] \o sep \o Join(Tail(parts), sep)

UpperCase == << "A", "J", "L", "M", "N", "O", "S", "Y" >>

LowerCase == << "a", "j", "l", "m", "n", "o", "s", "y" >>

\* unicode.ToLower on the characters of the model's alphabet: an upper case
\* letter maps to its lower case letter, anything else to itself.
ToLowerChar(c) ==
    IF \E n \in 1..Len(UpperCase) : UpperCase[n] = c
    THEN LowerCase[CHOOSE n \in 1..Len(UpperCase) : UpperCase[n] = c]
    ELSE c

ToLower(s) == [n \in 1..Len(s) |-> ToLowerChar(s[n])]

-----------------------------------------------------------------------------
(* The pure functions of push.go                                           *)

humanReadableDurationNoGuard(duration) ==
    LET total == IF LessThanSecond(duration) THEN 0 ELSE SecondsToInt(duration)
        seconds == IF total >= 60 THEN total % 60 ELSE total
        minutes0 == IF total >= 60 THEN total \div 60 ELSE 0
        hours == IF minutes0 >= 60 THEN minutes0 \div 60 ELSE 0
        minutes == IF minutes0 >= 60 THEN minutes0 % 60 ELSE minutes0
        parts == (IF hours > 0 THEN << ToString(hours) \o " h" >> ELSE << >>)
                 \o (IF minutes > 0 THEN << ToString(minutes) \o " min" >> ELSE << >>)
                 \o (IF seconds > 0 THEN << ToString(seconds) \o " sec" >> ELSE << >>)
    IN  Join(parts, " ")

humanReadableDuration(duration) ==
    IF LessThanSecond(duration) THEN "less than a second"
    ELSE
      LET total == SecondsToInt(duration)
          seconds == IF total >= 60 THEN total % 60 ELSE total
          minutes0 == IF total >= 60 THEN total \div 60 ELSE 0
          hours == IF minutes0 >= 60 THEN minutes0 \div 60 ELSE 0
          minutes == IF minutes0 >= 60 THEN minutes0 % 60 ELSE minutes0
          parts == (IF hours > 0 THEN << ToString(hours) \o " h" >> ELSE << >>)
                   \o (IF minutes > 0 THEN << ToString(minutes) \o " min" >> ELSE << >>)
                   \o (IF seconds > 0 THEN << ToString(seconds) \o " sec" >> ELSE << >>)
      IN  Join(parts, " ")

mapDeleteSettingDefaultAlways(s) ==
    CASE s = "always" -> [setting |-> Always, err |-> nil]
      [] s = "never" -> [setting |-> Never, err |-> nil]
      [] s = "on-success" -> [setting |-> OnSuccess, err |-> nil]
      [] OTHER -> [setting |-> Always, err |-> nil]

mapDeleteSetting(s) ==
    CASE s = "always" -> [setting |-> Always, err |-> nil]
      [] s = "never" -> [setting |-> Never, err |-> nil]
      [] s = "on-success" -> [setting |-> OnSuccess, err |-> nil]
      [] OTHER -> [setting |-> -1, err |-> "unsupported delete setting: " \o s]

mapOutputSettingCaseSensitive(s) ==
    CASE s = << "j", "s", "o", "n" >> -> [type |-> JSON, err |-> nil]
      [] s = << "y", "a", "m", "l" >> -> [type |-> YAML, err |-> nil]
      [] OTHER -> [type |-> -1, err |-> nil]

mapOutputSetting(s) ==
    CASE ToLower(s) = << "j", "s", "o", "n" >> -> [type |-> JSON, err |-> nil]
      [] ToLower(s) = << "y", "a", "m", "l" >> -> [type |-> YAML, err |-> nil]
      [] OTHER -> [type |-> -1, err |-> nil]

-----------------------------------------------------------------------------
(* The sample app table and the cobra commands registered by init()        *)

GonutAppPrefix == "gonut"

sampleApps == <<
    [caption |-> "Golang", command |-> "golang", aliases |-> << "go" >>,
     appNamePrefix |-> GonutAppPrefix \o "-golang-app-",
     assetFunc |-> "GoSampleApp"],
    [caption |-> "Python", command |-> "python", aliases |-> << >>,
     appNamePrefix |-> GonutAppPrefix \o "-python-app-",
     assetFunc |-> "PythonSampleApp"],
    [caption |-> "PHP", command |-> "php", aliases |-> << >>,
     appNamePrefix |-> GonutAppPrefix \o "-php-app-",
     assetFunc |-> "PHPSampleApp"],
    [caption |-> "Staticfile", command |-> "staticfile",
     aliases |-> << "static" >>,
     appNamePrefix |-> GonutAppPrefix \o "-staticfile-app-",
     assetFunc |-> "StaticfileSampleApp"],
    [caption |-> "Swift", command |-> "swift", aliases |-> << >>,
     appNamePrefix |-> GonutAppPrefix \o "-swift-app-",
     assetFunc |-> "SwiftSampleApp"],
    [caption |-> "NodeJS", command |-> "nodejs", aliases |-> << "node" >>,
     appNamePrefix |-> GonutAppPrefix \o "-nodejs-app-",
     assetFunc |-> "NodeJSSampleApp"],
    [caption |-> "Ruby", command |-> "ruby", aliases |-> << >>,
     appNamePrefix |-> GonutAppPrefix \o "-ruby-sinatra-app-",
     assetFunc |-> "RubySampleApp"] >>

NApps == Len(sampleApps)

\* The sub-commands of pushCmd in registration order: one per sample app,
\* run by genericCommandFunc, then "all".
pushCommands ==
    [n \in 1..(NApps + 1) |->
        IF n <= NApps
        THEN [Use |-> sampleApps[n].command, Aliases |-> sampleApps[n].aliases,
              Run |-> "genericCommandFunc", registeredFor |-> n]
        ELSE [Use |-> "all", Aliases |-> << >>, Run |-> "pushAll",
              registeredFor |-> 0]]

Range(s) == { s[n] : n \in 1..Len(s) }

\* cobra resolves a word to the first sub-command it names or aliases.
Matches(c, w) == c.Use = w \/ w \in Range(c.Aliases)

CobraFind(w) ==
    LET hits == { n \in 1..Len(pushCommands) : Matches(pushCommands[n], w) }
    IN  IF hits = {} THEN 0
        ELSE CHOOSE n \in hits : \A m \in hits : n <= m

RECURSIVE LookUpFrom(_, _)
LookUpFrom(name, n) ==
    IF n > NApps THEN 0
    ELSE IF sampleApps[n].command = name THEN n
    ELSE LookUpFrom(name, n + 1)

RECURSIVE LookUpByCaptionFrom(_, _)
LookUpByCaptionFrom(name, n) ==
    IF n > NApps THEN 0
    ELSE IF sampleApps[n].caption = name THEN n
    ELSE LookUpByCaptionFrom(name, n + 1)

lookUpSampleAppByCaption(name) == LookUpByCaptionFrom(name, 1)

\* The index of the sample app found, 0 for the nil pointer.
lookUpSampleAppByName(name) == LookUpFrom(name, 1)

-----------------------------------------------------------------------------
(* cf.PushReport and its printing                                          *)

NoReport == [elapsed |-> Dur(0, 0), hasTimeDetails |-> FALSE, ser |-> "none"]

\* The reports cf.PushApp may hand back.  ser says how the report's
\* serialisation behaves: "ok", ToJSON fails ("json-error"), ToJSON yields
\* bytes json.Indent rejects ("indent-error"), ToYAML fails ("yaml-error").
Reports ==
    { [elapsed |-> Dur(0, 500000000), hasTimeDetails |-> FALSE, ser |-> "ok"],
      [elapsed |-> Dur(90, 0), hasTimeDetails |-> TRUE, ser |-> "ok"],
      [elapsed |-> Dur(90, 0), hasTimeDetails |-> TRUE, ser |-> "json-error"],
      [elapsed |-> Dur(90, 0), hasTimeDetails |-> TRUE, ser |-> "indent-error"],
      [elapsed |-> Dur(90, 0), hasTimeDetails |-> TRUE, ser |-> "yaml-error"] }

ToJSON(r) ==
    IF r.ser = "json-error" THEN [out |-> "", err |-> "json: marshal failed"]
    ELSE IF r.ser = "indent-error" THEN [out |-> "{", err |-> nil]
    ELSE [out |-> "{report}", err |-> nil]

Indent(bytes) ==
    IF bytes = "{report}" THEN [out |-> "{\n   report\n}", err |-> nil]
    ELSE [out |-> "", err |-> "json: invalid input"]

ToYAML(r) ==
    IF r.ser = "yaml-error" THEN [out |-> "", err |-> "yaml: marshal failed"]
    ELSE [out |-> "report:", err |-> nil]

Stack(r) == "cflinuxfs3"

Buildpack(r) == "buildpack"

\* The five phase times of a report; the model gives each the elapsed time.
PhaseTime(r) == r.elapsed

Printout(kind, text) == [kind |-> kind, text |-> text]

OneLine(appCaption, r) ==
    Printout("oneline",
        << "Successfully pushed *" \o appCaption \o "* sample app in CadetBlue{"
           \o humanReadableDuration(r.elapsed) \o "}.\n" >>)

FullReport(appCaption, r) ==
    Printout("full",
        << "Successfully pushed *" \o appCaption \o "* sample app in CadetBlue{"
           \o humanReadableDuration(r.elapsed) \o "}:\n",
           "     DimGray{_stack:_} DarkSeaGreen{" \o Stack(r) \o "}\n",
           " DimGray{_buildpack:_} DarkSeaGreen{" \o Buildpack(r) \o "}\n" >>
        \o (IF r.hasTimeDetails
            THEN << "   DimGray{_ramp-up:_} SteelBlue{" \o humanReadableDuration(PhaseTime(r)) \o "}\n",
                    "  DimGray{_creating:_} SteelBlue{" \o humanReadableDuration(PhaseTime(r)) \o "}\n",
                    " DimGray{_uploading:_} SteelBlue{" \o humanReadableDuration(PhaseTime(r)) \o "}\n",
                    "   DimGray{_staging:_} SteelBlue{" \o humanReadableDuration(PhaseTime(r)) \o "}\n",
                    "  DimGray{_starting:_} SteelBlue{" \o humanReadableDuration(PhaseTime(r)) \o "}\n" >>
            ELSE << >>)
        \o << "\n" >>)

JSONReport(r) ==
    LET output == ToJSON(r)
        indented == Indent(output.out)
    IN  IF output.err # nil THEN [out |-> << >>, err |-> output.err]
        ELSE IF indented.err # nil THEN [out |-> << >>, err |-> indented.err]
        ELSE [out |-> << Printout("json", << indented.out >>) >>, err |-> nil]

YAMLReport(r) ==
    LET output == ToYAML(r)
    IN  IF output.err # nil THEN [out |-> << >>, err |-> output.err]
        ELSE [out |-> << Printout("yaml", << output.out >>) >>, err |-> nil]

\* A slip that prints the partial buffer before looking at the error.
summaryPrintoutPrintsFirst(appCaption, r, summary, type) ==
    CASE summary \in {"short", "oneline"} ->
            [out |-> << OneLine(appCaption, r) >>, err |-> nil]
      [] summary = "full" /\ type = JSON ->
            [out |-> << Printout("json", << Indent(ToJSON(r).out).out >>) >>,
             err |-> JSONReport(r).err]
      [] summary = "full" /\ type = YAML -> YAMLReport(r)
      [] summary = "full" /\ type \notin {JSON, YAML} ->
            [out |-> << FullReport(appCaption, r) >>, err |-> nil]
      [] OTHER -> [out |-> << >>, err |-> nil]

\* A slip that looks at the output type before the summary setting.
summaryPrintoutTypeFirst(appCaption, r, summary, type) ==
    CASE type = JSON -> JSONReport(r)
      [] type = YAML -> YAMLReport(r)
      [] summary \in {"short", "oneline"} ->
            [out |-> << OneLine(appCaption, r) >>, err |-> nil]
      [] summary = "full" ->
            [out |-> << FullReport(appCaption, r) >>, err |-> nil]
      [] OTHER -> [out |-> << >>, err |-> nil]

\* A slip that prints the one-line summary and then falls into "full".
summaryPrintoutFallthrough(appCaption, r, summary, type) ==
    CASE summary \in {"short", "oneline"} ->
            [out |-> << OneLine(appCaption, r) >>, err |-> nil]
      [] summary = "full" /\ type = JSON -> JSONReport(r)
      [] summary = "full" /\ type = YAML -> YAMLReport(r)
      [] summary = "full" /\ type \notin {JSON, YAML} ->
            [out |-> << OneLine(appCaption, r), FullReport(appCaption, r) >>,
             err |-> nil]
      [] OTHER -> [out |-> << >>, err |-> nil]

\* What summaryPrintout writes to standard output, in order, and the error
\* it returns.
summaryPrintout(appCaption, r, summary, type) ==
    CASE summary \in {"short", "oneline"} ->
            [out |-> << OneLine(appCaption, r) >>, err |-> nil]
      [] summary = "full" /\ type = JSON -> JSONReport(r)
      [] summary = "full" /\ type = YAML -> YAMLReport(r)
      [] summary = "full" /\ type \notin {JSON, YAML} ->
            [out |-> << FullReport(appCaption, r) >>, err |-> nil]
      [] OTHER -> [out |-> << >>, err |-> nil]

-----------------------------------------------------------------------------
(* One run of the program: specification Spec                              *)

\* The defaults of the persistent flags --delete, --summary and --output.
DefaultDelete == "always"

DefaultSummary == "short"

DefaultOutput == << >>

\* The values a flag may hold once cobra has parsed the command line: its
\* default, or what the user gave.
DeleteFlags == { DefaultDelete, "never", "on-success", "bogus" }

SummaryFlags == { DefaultSummary, "oneline", "full", "quiet" }

OutputFlags == { DefaultOutput, << "j", "s", "o", "n" >>,
                 << "J", "S", "O", "N" >>, << "Y", "a", "m", "l" >>,
                 << "x", "m", "l" >> }

\* Every word that names a registered sub-command of "push".
Words == UNION { {pushCommands[n].Use} \cup Range(pushCommands[n].Aliases) :
                 n \in 1..Len(pushCommands) }

\* An entry of the history calls: the function called, the sample app it was
\* called for, its string arguments and the error it returned.
Call(name, a, args, e) == [fn |-> name, app |-> a, args |-> args, err |-> e]

\* The caller of runSampleAppPush receives its error.
Returned(trace) == Append(trace, Call("return", app, << >>, err))

PureIdle ==
    /\ fn = "none"
    /\ arg = "none"
    /\ res = [done |-> FALSE]

Init ==
    /\ deleteSetting \in DeleteFlags
    /\ summarySetting \in SummaryFlags
    /\ outputSetting \in OutputFlags
    /\ word \in Words
    /\ cmdUse = ""
    /\ pc = "start"
    /\ i = 1
    /\ app = 0
    /\ cleanupSetting = -1
    /\ outputType = -1
    /\ appName = ""
    /\ directory = ""
    /\ report = NoReport
    /\ err = nil
    /\ calls = << >>
    /\ printed = << >>
    /\ exitMsg = "none"
    /\ PureIdle

\* The process-wide termination routine: the process ends with the reason.
ExitGonut(reason, trace) ==
    /\ pc' = "exited"
    /\ exitMsg' = reason
    /\ calls' = Append(trace, Call("ExitGonut", 0, << reason >>, nil))

\* cobra parses the flags and runs the sub-command the word names.
Execute ==
    /\ pc = "start"
    /\ CobraFind(word) # 0
    /\ cmdUse' = pushCommands[CobraFind(word)].Use
    /\ pc' = pushCommands[CobraFind(word)].Run
    /\ UNCHANGED << deleteSetting, summarySetting, outputSetting, word, i, app,
                    cleanupSetting, outputType, appName, directory, report,
                    err, calls, printed, exitMsg, fn, arg, res >>

\* Entry of runSampleAppPush(app): its locals are fresh.
EnterRun(a) ==
    /\ app' = a
    /\ pc' = "mapDeleteSetting"
    /\ calls' = Append(calls, Call("runSampleAppPush", a, << sampleApps[a].caption >>, nil))
    /\ cleanupSetting' = -1
    /\ outputType' = -1
    /\ appName' = ""
    /\ directory' = ""
    /\ report' = NoReport
    /\ err' = nil

genericCommandFunc ==
    /\ pc = "genericCommandFunc"
    /\ IF lookUpSampleAppByName(cmdUse) = 0
       THEN /\ ExitGonut("failed to detect which sample app is to be tested", calls)
            /\ UNCHANGED << app, cleanupSetting, outputType, appName,
                            directory, report, err >>
       ELSE /\ EnterRun(lookUpSampleAppByName(cmdUse))
            /\ UNCHANGED exitMsg
    /\ UNCHANGED << deleteSetting, summarySetting, outputSetting, word, cmdUse,
                    i, printed, fn, arg, res >>

genericCommandReturn ==
    /\ pc = "returned"
    /\ cmdUse # "all"
    /\ IF err # nil
       THEN ExitGonut(err, Returned(calls))
       ELSE pc' = "done" /\ calls' = Returned(calls) /\ UNCHANGED exitMsg
    /\ UNCHANGED << deleteSetting, summarySetting, outputSetting, word, cmdUse,
                    i, app, cleanupSetting, outputType, appName, directory,
                    report, err, printed, fn, arg, res >>

\* Head of the loop of "push all": the next sample app, or the end.
pushAllLoop ==
    /\ pc = "pushAll"
    /\ IF i <= NApps
       THEN EnterRun(i)
       ELSE /\ pc' = "done"
            /\ UNCHANGED << app, cleanupSetting, outputType, appName,
                            directory, report, err, calls >>
    /\ UNCHANGED << deleteSetting, summarySetting, outputSetting, word, cmdUse,
                    i, printed, exitMsg, fn, arg, res >>

\* A loop body that logs nothing and goes on after a failed push.
pushAllReturnGoesOn ==
    /\ pc = "returned"
    /\ cmdUse = "all"
    /\ i' = i + 1
    /\ pc' = "pushAll"
    /\ calls' = Returned(calls)
    /\ UNCHANGED exitMsg
    /\ UNCHANGED << deleteSetting, summarySetting, outputSetting, word, cmdUse,
                    app, cleanupSetting, outputType, appName, directory,
                    report, err, printed, fn, arg, res >>

\* Body of the loop of "push all" once runSampleAppPush has returned.
pushAllReturn ==
    /\ pc = "returned"
    /\ cmdUse = "all"
    /\ IF err # nil
       THEN ExitGonut(err, Returned(calls)) /\ UNCHANGED i
       ELSE /\ i' = i + 1
            /\ pc' = "pushAll"
            /\ calls' = Returned(calls)
            /\ UNCHANGED exitMsg
    /\ UNCHANGED << deleteSetting, summarySetting, outputSetting, word, cmdUse,
                    app, cleanupSetting, outputType, appName, directory,
                    report, err, printed, fn, arg, res >>

\* A runSampleAppPush that drops the error of mapDeleteSetting.
StepAfterIgnoresDeleteError(step, e) ==
    IF e # nil /\ step # "mapDeleteSetting" THEN "returned"
    ELSE CASE step = "mapDeleteSetting" -> "mapOutputSetting"
           [] step = "mapOutputSetting" -> "RandomStringWithPrefix"
           [] step = "RandomStringWithPrefix" -> "assetFunc"
           [] step = "assetFunc" -> "PushApp"
           [] step = "PushApp" -> "summaryPrintout"
           [] step = "summaryPrintout" -> "returned"

\* The control flow of runSampleAppPush: where it goes after a step that
\* ended with error e.
StepAfter(step, e) ==
    IF e # nil THEN "returned"
    ELSE CASE step = "mapDeleteSetting" -> "mapOutputSetting"
           [] step = "mapOutputSetting" -> "RandomStringWithPrefix"
           [] step = "RandomStringWithPrefix" -> "assetFunc"
           [] step = "assetFunc" -> "PushApp"
           [] step = "PushApp" -> "summaryPrintout"
           [] step = "summaryPrintout" -> "returned"

runMapDeleteSetting ==
    /\ pc = "mapDeleteSetting"
    /\ cleanupSetting' = mapDeleteSetting(deleteSetting).setting
    /\ err' = mapDeleteSetting(deleteSetting).err
    /\ calls' = Append(calls, Call("mapDeleteSetting", app,
                                   << deleteSetting >>, err'))
    /\ pc' = StepAfter("mapDeleteSetting", err')
    /\ UNCHANGED << deleteSetting, summarySetting, outputSetting, word, cmdUse,
                    i, app, outputType, appName, directory, report, printed,
                    exitMsg, fn, arg, res >>

runMapOutputSetting ==
    /\ pc = "mapOutputSetting"
    /\ outputType' = mapOutputSetting(outputSetting).type
    /\ err' = mapOutputSetting(outputSetting).err
    /\ calls' = Append(calls, Call("mapOutputSetting", app, << >>, err'))
    /\ pc' = StepAfter("mapOutputSetting", err')
    /\ UNCHANGED << deleteSetting, summarySetting, outputSetting, word, cmdUse,
                    i, app, cleanupSetting, appName, directory, report,
                    printed, exitMsg, fn, arg, res >>

\* text.RandomStringWithPrefix(prefix, 32): "*" stands for the random tail.
runRandomStringWithPrefix ==
    /\ pc = "RandomStringWithPrefix"
    /\ appName' = sampleApps[app].appNamePrefix \o "*"
    /\ calls' = Append(calls, Call("RandomStringWithPrefix", app,
                                   << sampleApps[app].appNamePrefix >>, nil))
    /\ pc' = StepAfter("RandomStringWithPrefix", nil)
    /\ UNCHANGED << deleteSetting, summarySetting, outputSetting, word, cmdUse,
                    i, app, cleanupSetting, outputType, directory, report, err,
                    printed, exitMsg, fn, arg, res >>

\* app.assetFunc(): a directory, or an error.
runAssetFunc ==
    /\ pc = "assetFunc"
    /\ \E e \in { nil, "asset error" } :
          /\ err' = e
          /\ directory' = IF e = nil THEN "dir:" \o sampleApps[app].assetFunc
                          ELSE ""
    /\ calls' = Append(calls, Call(sampleApps[app].assetFunc, app, << >>, err'))
    /\ pc' = StepAfter("assetFunc", err')
    /\ UNCHANGED << deleteSetting, summarySetting, outputSetting, word, cmdUse,
                    i, app, cleanupSetting, outputType, appName, report,
                    printed, exitMsg, fn, arg, res >>

\* cf.PushApp(caption, appName, directory, cleanupSetting): a report, or an
\* error.
runPushApp ==
    /\ pc = "PushApp"
    /\ \/ /\ err' = "push error"
          /\ report' = NoReport
       \/ /\ err' = nil
          /\ report' \in Reports
    /\ calls' = Append(calls, Call("PushApp", app,
                    << sampleApps[app].caption, appName, directory,
                       ToString(cleanupSetting) >>, err'))
    /\ pc' = StepAfter("PushApp", err')
    /\ UNCHANGED << deleteSetting, summarySetting, outputSetting, word, cmdUse,
                    i, app, cleanupSetting, outputType, appName, directory,
                    printed, exitMsg, fn, arg, res >>

runSummaryPrintout ==
    /\ pc = "summaryPrintout"
    /\ LET r == summaryPrintout(sampleApps[app].caption, report,
                                summarySetting, outputType)
       IN  /\ printed' = printed \o r.out
           /\ err' = r.err
    /\ calls' = Append(calls, Call("summaryPrintout", app,
                                   << sampleApps[app].caption >>, err'))
    /\ pc' = StepAfter("summaryPrintout", nil)
    /\ UNCHANGED << deleteSetting, summarySetting, outputSetting, word, cmdUse,
                    i, app, cleanupSetting, outputType, appName, directory,
                    report, exitMsg, fn, arg, res >>

Next ==
    \/ Execute
    \/ genericCommandFunc
    \/ genericCommandReturn
    \/ pushAllLoop
    \/ pushAllReturn
    \/ runMapDeleteSetting
    \/ runMapOutputSetting
    \/ runRandomStringWithPrefix
    \/ runAssetFunc
    \/ runPushApp
    \/ runSummaryPrintout

Spec == Init /\ [][Next]_vars

-----------------------------------------------------------------------------
(* One call of a pure function: specification SpecPure                     *)

SecondsSamples ==
    (0..MaxSeconds) \cup
    { 3599, 3600, 3601, 3660, 3661, 7200, 86399, 86400, 90061,
      8388608, 16777215, 16777216, 33554432, 1073741823 }

NanosSamples == { 0, 1, 500000000, 999999996, 999999997, 999999998, 999999999 }

DurationInputs ==
    { Dur(s, n) : s \in SecondsSamples, n \in NanosSamples }
    \cup { Dur(0, -1), Dur(0, -999999999), Dur(-1, 0), Dur(-1, -999999999),
           Dur(-3661, 0), Dur(-16777216, -999999999) }

DeleteInputs ==
    { "always", "never", "on-success", "", "Always", "ALWAYS", "Never",
      "NEVER", "On-Success", "on_success", "onsuccess", "on success",
      " always", "always ", "bogus", "yes", "no", "true", "-1", "0", "1" }

SmallAlphabet == { "j", "s", "o", "n", "J", "y", "x", "-" }

Letters == { LowerCase[n] : n \in 1..Len(LowerCase) }
           \cup { UpperCase[n] : n \in 1..Len(UpperCase) }

\* The spellings of a lower case word in every mix of upper and lower case.
IsCaseVariant(s, w) ==
    /\ Len(s) = Len(w)
    /\ \A n \in 1..Len(w) :
          \/ s[n] = w[n]
          \/ \E m \in 1..Len(LowerCase) :
                LowerCase[m] = w[n] /\ UpperCase[m] = s[n]

CaseVariants(w) == { s \in [1..Len(w) -> Letters] : IsCaseVariant(s, w) }

OutputInputs ==
    UNION { [1..n -> SmallAlphabet] : n \in 0..MaxStrLen }
    \cup CaseVariants(<< "j", "s", "o", "n" >>)
    \cup CaseVariants(<< "y", "a", "m", "l" >>)
    \cup { << "y", "m", "l" >>, << "j", "s", "o", "n", "l" >>,
           << "y", "a", "m", "l", "s" >>, << "x", "j", "s", "o", "n" >> }

ProcIdle ==
    /\ deleteSetting = "always"
    /\ summarySetting = "short"
    /\ outputSetting = << >>
    /\ word = ""
    /\ cmdUse = ""
    /\ pc = "idle"
    /\ i = 1
    /\ app = 0
    /\ cleanupSetting = -1
    /\ outputType = -1
    /\ appName = ""
    /\ directory = ""
    /\ report = NoReport
    /\ err = nil
    /\ calls = << >>
    /\ printed = << >>
    /\ exitMsg = "none"

InitPure ==
    /\ ProcIdle
    /\ res = [done |-> FALSE]
    /\ \/ fn = "humanReadableDuration" /\ arg \in DurationInputs
       \/ fn = "mapDeleteSetting" /\ arg \in DeleteInputs
       \/ fn = "mapOutputSetting" /\ arg \in OutputInputs

Result(v) == [done |-> TRUE, val |-> v]

callHumanReadableDuration ==
    /\ fn = "humanReadableDuration"
    /\ ~res.done
    /\ res' = Result(humanReadableDuration(arg))
    /\ UNCHANGED << procVars, fn, arg >>

callMapDeleteSetting ==
    /\ fn = "mapDeleteSetting"
    /\ ~res.done
    /\ res' = Result(mapDeleteSetting(arg))
    /\ UNCHANGED << procVars, fn, arg >>

callMapOutputSetting ==
    /\ fn = "mapOutputSetting"
    /\ ~res.done
    /\ res' = Result(mapOutputSetting(arg))
    /\ UNCHANGED << procVars, fn, arg >>

NextPure ==
    \/ callHumanReadableDuration
    \/ callMapDeleteSetting
    \/ callMapOutputSetting

SpecPure == InitPure /\ [][NextPure]_vars

-----------------------------------------------------------------------------
(* Reading the histories                                                   *)

Indices(f) == { k \in 1..Len(calls) : calls[k].fn = f }

\* Positions at which runSampleAppPush was entered, and how many entries
\* there were up to position k.
Starts == Indices("runSampleAppPush")

StartsUpTo(k) == Cardinality({ m \in Starts : m <= k })

Boundary(k) == calls[k].fn \in { "runSampleAppPush", "return", "ExitGonut" }

\* The last position of the run entered at position k: the calls made by
\* that runSampleAppPush are those at k+1 .. RunEnd(k).
RunEnd(k) ==
    LET stops == { m \in (k + 1)..Len(calls) : Boundary(m) }
    IN  IF stops = {} THEN Len(calls)
        ELSE (CHOOSE m \in stops : \A n \in stops : m <= n) - 1

StepOrder(a) ==
    << "mapDeleteSetting", "mapOutputSetting", "RandomStringWithPrefix",
       sampleApps[a].assetFunc, "PushApp", "summaryPrintout" >>

json == << "j", "s", "o", "n" >>

yaml == << "y", "a", "m", "l" >>

\* The sample app a word names: by its command or by one of its aliases.
NamedApp(w) ==
    CHOOSE n \in 1..NApps :
        sampleApps[n].command = w \/ w \in Range(sampleApps[n].aliases)

-----------------------------------------------------------------------------
(* C1  humanReadableDuration, durations of one second or more              *)

\* The text the claim gives for s whole seconds: the non-zero ones of
\* "<s div 3600> h", "<(s div 60) mod 60> min", "<s mod 60> sec", joined by
\* single spaces in that order.
ClaimedText(s) ==
    LET h == s \div 3600
        m == (s \div 60) % 60
        sec == s % 60
        all == << [v |-> h, unit |-> " h"], [v |-> m, unit |-> " min"],
                  [v |-> sec, unit |-> " sec"] >>
        NonZero(c) == c.v # 0
        kept == SelectSeq(all, NonZero)
    IN  Join([n \in 1..Len(kept) |-> ToString(kept[n].v) \o kept[n].unit], " ")

\* C1: for every duration d >= 1 second, with s the whole seconds of d
\* (fraction truncated), humanReadableDuration(d) is the single-space join
\* of the non-zero components of s in the order hours, minutes, seconds.
C1_DurationText ==
    (fn = "humanReadableDuration" /\ res.done /\ arg.sec >= 1)
        => res.val = ClaimedText(arg.sec)

\* The same statement for durations below 2^23 seconds (about 97 days),
\* where float64 keeps the nanoseconds apart: there the code agrees.
C1_DurationTextBelowFloatLimit ==
    (fn = "humanReadableDuration" /\ res.done /\ arg.sec >= 1
        /\ arg.sec < Pow2(23))
        => res.val = ClaimedText(arg.sec)

-----------------------------------------------------------------------------
(* C2  humanReadableDuration, sub-second durations                         *)

\* d < time.Second in terms of the record: sec * Second + nsec < Second
\* with |nsec| < Second and nsec of the sign of sec.
BelowOneSecond(d) == d.sec <= 0

\* C2: humanReadableDuration is total; it returns "less than a second" for
\* every duration strictly below one second (zero and negative included)
\* and for no duration of one second or more.
C2_LessThanASecond ==
    fn = "humanReadableDuration" =>
        /\ ~res.done => ENABLED callHumanReadableDuration
        /\ res.done =>
             (res.val = "less than a second" <=> BelowOneSecond(arg))

C2_Witness ==
    /\ fn = "humanReadableDuration"
    /\ res.done
    /\ arg = Dur(-1, -999999999)
    /\ res.val = "less than a second"

-----------------------------------------------------------------------------
(* C3  mapDeleteSetting                                                    *)

\* C3: mapDeleteSetting returns (Always, nil) for exactly "always",
\* (Never, nil) for exactly "never", (OnSuccess, nil) for exactly
\* "on-success", and for every other string an error and none of the three
\* cleanup settings.
C3_MapDeleteSetting ==
    (fn = "mapDeleteSetting" /\ res.done) =>
        /\ arg = "always" => res.val = [setting |-> Always, err |-> nil]
        /\ arg = "never" => res.val = [setting |-> Never, err |-> nil]
        /\ arg = "on-success" => res.val = [setting |-> OnSuccess, err |-> nil]
        /\ arg \notin { "always", "never", "on-success" } =>
              /\ res.val.err # nil
              /\ res.val.setting \notin { Always, Never, OnSuccess }

C3_Witness ==
    /\ fn = "mapDeleteSetting"
    /\ res.done
    /\ arg = "Always"
    /\ res.val.err = "unsupported delete setting: Always"

-----------------------------------------------------------------------------
(* C4  mapOutputSetting                                                    *)

\* C4: mapOutputSetting never returns an error; it returns JSON for every
\* case variant of "json", YAML for every case variant of "yaml", and a
\* value that is neither JSON nor YAML for every other string.
C4_MapOutputSetting ==
    (fn = "mapOutputSetting" /\ res.done) =>
        /\ res.val.err = nil
        /\ IsCaseVariant(arg, json) => res.val.type = JSON
        /\ IsCaseVariant(arg, yaml) => res.val.type = YAML
        /\ (~IsCaseVariant(arg, json) /\ ~IsCaseVariant(arg, yaml)) =>
              res.val.type \notin { JSON, YAML }

C4_Witness ==
    /\ fn = "mapOutputSetting"
    /\ res.done
    /\ arg = << "J", "s", "O", "n" >>
    /\ res.val.type = JSON

-----------------------------------------------------------------------------
(* C5  push all                                                            *)

\* C5: "push all" pushes the sample apps one at a time in the order of the
\* table, each at most once; once runSampleAppPush returns an error the
\* termination routine is invoked and no later app is pushed; if no push
\* fails every app of the table is pushed exactly once.
C5_PushAll ==
    cmdUse = "all" =>
        /\ \A k \in Starts : calls[k].app = StartsUpTo(k)
        /\ \A k \in Starts : RunEnd(k) < Len(calls) => calls[RunEnd(k) + 1].fn = "return"
        /\ \A r \in Indices("return") :
              calls[r].err # nil =>
                  /\ r + 1 = Len(calls)
                  /\ calls[r + 1].fn = "ExitGonut"
                  /\ calls[r + 1].args = << calls[r].err >>
                  /\ pc = "exited"
        /\ \A e \in Indices("ExitGonut") : e = Len(calls) /\ ~ENABLED Next
        /\ pc = "done" =>
              /\ Cardinality(Starts) = NApps
              /\ Cardinality(Indices("return")) = NApps
              /\ \A r \in Indices("return") : calls[r].err = nil

\* The third app of the table fails after two pushes went through.
C5_Witness ==
    /\ cmdUse = "all"
    /\ pc = "exited"
    /\ Cardinality(Starts) = 3
    /\ exitMsg = "push error"

-----------------------------------------------------------------------------
(* C6  runSampleAppPush                                                    *)

\* C6: runSampleAppPush performs its steps in the fixed order map delete
\* setting, map output setting, generate app name, asset function,
\* cf.PushApp, render the report; each at most once; the first step that
\* fails ends the run with that step's error and no later step is invoked
\* (an unsupported delete setting ends the run before the asset function
\* or cf.PushApp is called; a failed push renders no report).
C6_RunSampleAppPush ==
    \A k \in Starts :
        LET last == RunEnd(k)
            n == last - k
            order == StepOrder(calls[k].app)
        IN  /\ n <= Len(order)
            /\ \A m \in 1..n :
                  /\ calls[k + m].fn = order[m]
                  /\ calls[k + m].app = calls[k].app
                  /\ m < n => calls[k + m].err = nil
            /\ last < Len(calls) =>
                  /\ n >= 1
                  /\ calls[last + 1].fn = "return"
                  /\ calls[last + 1].err = calls[last].err
                  /\ calls[last].err = nil => n = Len(order)
            /\ (n >= 1 /\ calls[last].err # nil) => pc \in { "returned", "exited" }
            /\ mapDeleteSetting(deleteSetting).err # nil => n <= 1
            /\ (n >= 1 /\ calls[last].fn = "PushApp" /\ calls[last].err # nil) =>
                  Len(printed) <= StartsUpTo(k) - 1

\* An unsupported delete setting: the run ended after its first step.
C6_Witness ==
    /\ deleteSetting = "bogus"
    /\ pc = "exited"
    /\ exitMsg = "unsupported delete setting: bogus"
    /\ Len(calls) = 4
    /\ calls[2].fn = "mapDeleteSetting"

-----------------------------------------------------------------------------
(* C7  summaryPrintout renders one output                                  *)

Kinds == { "oneline", "json", "yaml", "full" }

PrintoutCalls == Indices("summaryPrintout")

PrintoutCallsOK == { k \in PrintoutCalls : calls[k].err = nil }

\* C7 as stated: for every report and every combination of summary setting
\* and output type, summaryPrintout renders exactly one of the four
\* outputs.  It is stated here for the calls that return no error only (a
\* call that fails on the report's serialization is C8's case), which is
\* the weakest reading of the claim.
C7_ExactlyOneOutput ==
    /\ Len(printed) = Cardinality(PrintoutCallsOK)
    /\ \A n \in 1..Len(printed) : printed[n].kind \in Kinds

\* C7 as amended: summaryPrintout renders at most one of the four outputs;
\* exactly one when the summary setting is "short", "oneline" or "full"
\* and it returns no error; none for any other summary setting (such as
\* "quiet") and none when it returns an error.
C7_AtMostOneOutput ==
    /\ \A n \in 1..Len(printed) : printed[n].kind \in Kinds
    /\ Len(printed) <= Cardinality(PrintoutCalls)
    /\ summarySetting \in { "short", "oneline", "full" } =>
          Len(printed) = Cardinality(PrintoutCallsOK)
    /\ summarySetting \notin { "short", "oneline", "full" } =>
          /\ printed = << >>
          /\ PrintoutCallsOK = PrintoutCalls

C7_Witness ==
    /\ summarySetting = "quiet"
    /\ pc = "done"
    /\ Cardinality(PrintoutCalls) = 1
    /\ printed = << >>

-----------------------------------------------------------------------------
(* C8  summaryPrintout's errors                                            *)

SerializationFails(r, type) ==
    \/ type = JSON /\ (ToJSON(r).err # nil \/ Indent(ToJSON(r).out).err # nil)
    \/ type = YAML /\ ToYAML(r).err # nil

\* C8: summaryPrintout returns an error only if the report's JSON or YAML
\* serialization (the JSON indentation included) fails; for every summary
\* setting other than "full", and for "full" with an output type that is
\* neither JSON nor YAML, it returns no error; and whenever it returns an
\* error nothing has been printed.
C8_PrintoutErrors ==
    /\ \A k \in PrintoutCalls :
          calls[k].err # nil =>
              /\ summarySetting = "full"
              /\ outputType \in { JSON, YAML }
              /\ SerializationFails(report, outputType)
    /\ Len(printed) <= Cardinality(PrintoutCallsOK)

C8_Witness ==
    /\ pc = "exited"
    /\ calls[Len(calls) - 2].fn = "summaryPrintout"
    /\ exitMsg = "json: invalid input"
    /\ printed = << >>

-----------------------------------------------------------------------------
(* C9  the output type takes effect under "full" only                      *)

\* C9: structured JSON or YAML is printed only when the summary setting is
\* "full" and the output type is JSON or YAML respectively; with summary
\* "short" or "oneline" (the flag default is "short") the one-line summary
\* is printed whatever the output type, so --output json with the default
\* summary emits no JSON.
C9_OutputTypeUnderFullOnly ==
    /\ \A n \in 1..Len(printed) :
          /\ printed[n].kind = "json" =>
                summarySetting = "full" /\ IsCaseVariant(outputSetting, json)
          /\ printed[n].kind = "yaml" =>
                summarySetting = "full" /\ IsCaseVariant(outputSetting, yaml)
    /\ summarySetting \in { "short", "oneline" } =>
          /\ Len(printed) = Cardinality(PrintoutCalls)
          /\ \A n \in 1..Len(printed) : printed[n].kind = "oneline"
    /\ DefaultSummary = "short"

C9_Witness ==
    /\ summarySetting = DefaultSummary
    /\ outputSetting = json
    /\ pc = "done"
    /\ Len(printed) = 1
    /\ printed[1].kind = "oneline"

-----------------------------------------------------------------------------
(* C10  the per-language sub-commands                                      *)

\* C10: command names in the sampleApps table are pairwise distinct and
\* every per-language sub-command is registered with Use equal to its
\* app's command; so for every such sub-command, also when invoked through
\* an alias, genericCommandFunc resolves exactly the sample app it was
\* registered for, never takes the "failed to detect" exit, and pushes that
\* one app exactly once with that app's caption, name prefix and asset
\* function.
C10_GenericCommand ==
    /\ \A a, b \in 1..NApps :
          sampleApps[a].command = sampleApps[b].command => a = b
    /\ \A n \in 1..NApps :
          pushCommands[n].Use = sampleApps[n].command
    /\ (word # "all" /\ pc # "start") =>
          /\ cmdUse = sampleApps[NamedApp(word)].command
          /\ exitMsg # "failed to detect which sample app is to be tested"
          /\ pc # "genericCommandFunc" =>
                /\ Cardinality(Starts) = 1
                /\ app = NamedApp(word)
          /\ \A k \in 1..Len(calls) :
                /\ calls[k].fn # "ExitGonut" => calls[k].app = NamedApp(word)
                /\ calls[k].fn = "runSampleAppPush" =>
                      calls[k].args = << sampleApps[NamedApp(word)].caption >>
                /\ calls[k].fn = "RandomStringWithPrefix" =>
                      calls[k].args = << sampleApps[NamedApp(word)].appNamePrefix >>
                /\ calls[k].fn = "PushApp" =>
                      /\ calls[k].args[1] = sampleApps[NamedApp(word)].caption
                      /\ calls[k].args[2] =
                            sampleApps[NamedApp(word)].appNamePrefix \o "*"
                      /\ calls[k].args[3] =
                            "dir:" \o sampleApps[NamedApp(word)].assetFunc
          /\ pc = "done" =>
                /\ Cardinality(Indices(sampleApps[NamedApp(word)].assetFunc)) = 1
                /\ Cardinality(Indices("PushApp")) = 1

\* The Staticfile app pushed through its alias.
C10_Witness ==
    /\ word = "static"
    /\ pc = "done"
    /\ calls[1].fn = "runSampleAppPush"
    /\ calls[1].app = 4
    /\ Cardinality(Indices("PushApp")) = 1

=============================================================================
